---- MODULE Spec2Model ----
(***************************************************************************)
(* Marain chat server: the SessionWorker tasks, the AppGateway fan-in, the *)
(* single-owner App loop (EventBus, CommandHandler, AppState).             *)
(* Modelled from src/src/services/{app,app_gateway,user_session}.rs.       *)
(* Timestamps (Utc::now()) are left out of MessageLog / NotificationLog.   *)
(***************************************************************************)
EXTENDS Integers, Sequences, FiniteSets, TLC

\* --------------------------------------------------------------------------
\* Bounds of the model and program constants
\* --------------------------------------------------------------------------
MaxMsgs == 1        \* SendToRoom frames per client, balanced profile
MaxMoves == 1       \* Move frames per client, balanced profile
MaxMisc == 2        \* other data frames per client, balanced profile
ChattyMsgs == 30    \* SendToRoom frames of the chatty client
MoverMoves == 27    \* Move frames of the roaming client
MaxQueue == 2       \* commands in flight between the sessions and App
MaxEvents == 1      \* events waiting in one session's event channel
MaxFeed == 3        \* commands fed to App alone

max_logs == 25      \* AppState::new, max_logs: 25

Users == {"u1", "u2", "u3"}
RoomNames == {"Hub", "lobby"}

\* The name each client asserts at login (User.name); User.id is the user itself.
Name(u) == CASE u = "u1" -> "alice" [] u = "u2" -> "bob" [] OTHER -> "carol"

VARIABLES
    occupancy,              \* AppState.occupancy : Room -> Vec<User>
    chat_logs,              \* AppState.chat_logs : Room -> VecDeque<MessageLog>
    notifications,          \* AppState.notifications : Room -> VecDeque<NotificationLog>
    subscribers,            \* EventBus.subscribers : User -> sender of an event channel
    app_status,             \* App task: "running", "error" (work returned Err), "panic"
    gateway_status,         \* AppGateway task: "running" or "panic"
    session_worker_source,  \* channel sessions -> AppGateway
    gateway_source,         \* channel AppGateway -> App
    event_source,           \* per session: its event channel (SessionBus.event_source)
    rx_open,                \* per session: the receiver of its event channel still exists
    pc,                     \* per session: position of SessionWorker::run
    sock,                   \* per session: state of the client socket
    wire,                   \* per session: the last frame written to the socket
    used,                   \* per client: data frames sent so far, by kind and in order
    quota,                  \* per client: data frames it will send at most, by kind
    last,                   \* the command App handled last, with its broadcasts and
                            \* the rooms and subscribers it found
    handled,                \* per user: the kinds of command App has handled for it
    sent,                   \* per session: the commands it has sent, in order
    recv,                   \* per session: the events put on its channel, in order
    recorded,               \* per room: every message App has recorded there, in order
    entered,                \* per room: its occupants in the order they were added
    replies                 \* per session: the GetTime replies written to its socket

vars == <<occupancy, chat_logs, notifications, subscribers, app_status,
          gateway_status, session_worker_source, gateway_source, event_source,
          rx_open, pc, sock, wire, used, quota, last, handled, sent, recv,
          recorded, entered, replies>>

\* --------------------------------------------------------------------------
\* Vec / VecDeque helpers
\* --------------------------------------------------------------------------
Contains(seq, x) == \E i \in 1..Len(seq) : seq[i] = x

Position(seq, x) == CHOOSE i \in 1..Len(seq) :
                        seq[i] = x /\ \A j \in 1..(i - 1) : seq[j] /= x

Count(seq, x) == Cardinality({i \in 1..Len(seq) : seq[i] = x})

\* Vec::swap_remove: the last element takes the place of the removed one.
SwapRemove(seq, i) ==
    [k \in 1..(Len(seq) - 1) |-> IF k = i THEN seq[Len(seq)] ELSE seq[k]]

\* PushLog with a slip: the eviction is left out.
PushLogNoEvict(logs, entry) == Append(logs, entry)

\* PushLog with a slip: the full log refuses the new entry.
PushLogKeepOldest(logs, entry) ==
    IF Len(logs) >= max_logs THEN logs ELSE Append(logs, entry)

\* push_back, then pop_front when the length exceeds max_logs.
PushLog(logs, entry) ==
    LET pushed == Append(logs, entry)
    IN  IF Len(pushed) > max_logs THEN Tail(pushed) ELSE pushed

\* --------------------------------------------------------------------------
\* Domain values
\* --------------------------------------------------------------------------
MessageLog(u, message) == [username |-> Name(u), contents |-> message]

NotificationLog(text) == [notifier |-> "SERVER", contents |-> text]

Broadcast(event, subs) == [event |-> event, subscribers |-> subs]

\* The EventBus without an entry.
NoBus == [v \in {} |-> "none"]

RegisterUser(u, sink) == [user |-> u, payload |-> [type |-> "RegisterUser", sink |-> sink]]
DropUser(u) == [user |-> u, payload |-> [type |-> "DropUser"]]
MoveUser(u, room) == [user |-> u, payload |-> [type |-> "MoveUser", target_room |-> room]]
RecordMessage(u, m) == [user |-> u, payload |-> [type |-> "RecordMessage", message |-> m]]
Time(u) == [user |-> u, payload |-> [type |-> "Time"]]
GetRecipients(u) == [user |-> u, payload |-> [type |-> "GetRecipients"]]

\* The iteration orders a HashMap over the room names can have.
Orders == {o \in [1..Cardinality(RoomNames) -> RoomNames] :
              \A i, j \in 1..Cardinality(RoomNames) : i /= j => o[i] /= o[j]}

\* --------------------------------------------------------------------------
\* AppState (s is a record [occupancy, chat_logs, notifications])
\* --------------------------------------------------------------------------
room_subscribers(s, room) ==
    IF room \in DOMAIN s.occupancy THEN s.occupancy[room] ELSE <<>>

room_chat_logs(s, room) ==
    IF room \in DOMAIN s.chat_logs THEN s.chat_logs[room] ELSE <<>>

room_notifications(s, room) ==
    IF room \in DOMAIN s.notifications THEN s.notifications[room] ELSE <<>>

occupant_names(s, room) ==
    LET subs == room_subscribers(s, room)
    IN  [i \in 1..Len(subs) |-> Name(subs[i])]

add_user_to_room(s, user, room) ==
    [s EXCEPT !.occupancy =
        IF room \in DOMAIN s.occupancy
        THEN [s.occupancy EXCEPT ![room] = Append(@, user)]
        ELSE [r \in DOMAIN s.occupancy \cup {room} |->
                 IF r = room THEN <<user>> ELSE s.occupancy[r]]]

\* The rooms whose occupancy list holds the user, in iteration order ord.
OccupiedIn(s, user, ord) ==
    SelectSeq(ord, LAMBDA r : r \in DOMAIN s.occupancy /\ Contains(s.occupancy[r], user))

\* Option<T> as a sequence: <<>> is None, <<x>> is Some(x).
First(found) == IF found = <<>> THEN <<>> ELSE <<Head(found)>>

get_occupied_room(s, user, ord) == First(OccupiedIn(s, user, ord))

\* Every room whose occupancy list holds the user gets the notice.
record_notification(s, user, notice) ==
    [s EXCEPT !.notifications =
        [r \in DOMAIN s.notifications \cup
               {q \in DOMAIN s.occupancy : Contains(s.occupancy[q], user)} |->
            IF r \in DOMAIN s.occupancy /\ Contains(s.occupancy[r], user)
            THEN IF r \in DOMAIN s.notifications
                 THEN PushLog(s.notifications[r], notice)
                 ELSE <<notice>>
            ELSE s.notifications[r]]]

\* RemoveFrom with a slip: the swap_remove is left out.
RemoveFromKeep(s, user, notice, found) ==
    IF found = <<>> THEN s ELSE record_notification(s, user, notice)

\* remove_user_from_room, once get_occupied_room has answered found.
RemoveFrom(s, user, notice, found) ==
    IF found = <<>>
    THEN s
    ELSE record_notification(
             [s EXCEPT !.occupancy[found[1]] = SwapRemove(@, Position(@, user))],
             user, notice)

remove_user_from_room(s, user, notice, ord) ==
    RemoveFrom(s, user, notice, get_occupied_room(s, user, ord))

\* record_chat_message, once the loop has found the first room of the user.
RecordIn(s, msg, found) ==
    IF found = <<>>
    THEN [state |-> s, recipients |-> <<>>]
    ELSE [state |-> [s EXCEPT !.chat_logs =
                [r \in DOMAIN s.chat_logs \cup {found[1]} |->
                    IF r = found[1]
                    THEN IF r \in DOMAIN s.chat_logs
                         THEN PushLog(s.chat_logs[r], msg)
                         ELSE <<msg>>
                    ELSE s.chat_logs[r]]],
          recipients |-> s.occupancy[found[1]]]

\* record_chat_message with a slip: the sender is left out of the recipients
\* (as get_recipients_except does).
RecordChatExceptSender(s, user, msg, ord) ==
    [state |-> RecordIn(s, msg, get_occupied_room(s, user, ord)).state,
     recipients |-> SelectSeq(RecordIn(s, msg, get_occupied_room(s, user, ord)).recipients,
                              LAMBDA v : v /= user)]

\* Returns the new state and the recipients (the occupants of the room found).
record_chat_message(s, user, msg, ord) ==
    RecordIn(s, msg, get_occupied_room(s, user, ord))

\* --------------------------------------------------------------------------
\* CommandHandler: every operator returns [state, casts] (casts: the
\* broadcasts pushed onto event_buf, in order)
\* --------------------------------------------------------------------------
UserLeft(user, room, names, notes, logs) ==
    [type |-> "UserLeft", user |-> user, room |-> room, occupant_names |-> names,
     notifications |-> notes, msg_log |-> logs]

UserJoined(user, room, names, notes, logs) ==
    [type |-> "UserJoined", user |-> user, room |-> room, occupant_names |-> names,
     notifications |-> notes, msg_log |-> logs]

MsgReceived(msg) == [type |-> "MsgReceived", msg |-> msg]

\* register_user with a slip: the token is the name, not the id.
register_user_name(user) ==
    Broadcast([type |-> "UserRegistered", token |-> Name(user)], <<user>>)

register_user(user) ==
    Broadcast([type |-> "UserRegistered", token |-> user], <<user>>)

\* The Some(Broadcast) of remove_occupant, built on the state t after removal.
LeftCast(t, user, room) ==
    [state |-> t,
     casts |-> <<Broadcast(UserLeft(user, room, occupant_names(t, room),
                                    room_notifications(t, room),
                                    room_chat_logs(t, room)),
                           room_subscribers(t, room))>>]

RemoveOccupantFrom(s, user, ord, found) ==
    IF found = <<>>
    THEN [state |-> s, casts |-> <<>>]
    ELSE LeftCast(remove_user_from_room(
                      s, user,
                      NotificationLog(<<Name(user), "left", found[1]>>), ord),
                  user, found[1])

\* Option<Broadcast> as a sequence of length 0 or 1, with the new state.
remove_occupant(s, user, ord) ==
    RemoveOccupantFrom(s, user, ord, get_occupied_room(s, user, ord))

\* JoinedCast with a slip: the joiner is left out of the recipients.
JoinedCastOthers(t, user, room) ==
    [state |-> t,
     casts |-> <<Broadcast(UserJoined(user, room, occupant_names(t, room),
                                      room_notifications(t, room),
                                      room_chat_logs(t, room)),
                           SelectSeq(room_subscribers(t, room),
                                     LAMBDA v : v /= user))>>]

\* The Broadcast of insert_occupant, built on the state t after insertion.
JoinedCast(t, user, room) ==
    [state |-> t,
     casts |-> <<Broadcast(UserJoined(user, room, occupant_names(t, room),
                                      room_notifications(t, room),
                                      room_chat_logs(t, room)),
                           room_subscribers(t, room))>>]

\* insert_occupant with a slip: the join notice is not recorded.
insert_occupant_unnoticed(s, user, room) ==
    JoinedCast(add_user_to_room(s, user, room), user, room)

insert_occupant(s, user, room) ==
    JoinedCast(record_notification(add_user_to_room(s, user, room), user,
                                   NotificationLog(<<Name(user), "joined", room>>)),
               user, room)

\* The subscribers handle_drop_user collects before the removal.
DropSubscribers(subs, user) ==
    IF Contains(subs, user) THEN subs ELSE Append(subs, user)

\* remove_occupant(..).unwrap_or(Broadcast{..}): removed is remove_occupant's
\* answer, room the room found before it (Hub when none).
DropCast(s, user, room, removed) ==
    IF removed.casts /= <<>>
    THEN removed
    ELSE [state |-> removed.state,
          casts |-> <<Broadcast(
              UserLeft(user, room, occupant_names(removed.state, room), <<>>, <<>>),
              DropSubscribers(room_subscribers(s, room), user))>>]

DropRoom(found) == IF found = <<>> THEN "Hub" ELSE found[1]

handle_drop_user(s, user, ord) ==
    DropCast(s, user, DropRoom(get_occupied_room(s, user, ord)),
             remove_occupant(s, user, ord))

Ok(r) == [ok |-> TRUE, state |-> r.state, casts |-> r.casts]

\* event_buf after a further push_back of the casts of r.
PushBack(casts, r) == [state |-> r.state, casts |-> casts \o r.casts]

\* MoveInsert with a slip: a user that was removed is not inserted again.
MoveInsertUnlessRemoved(r, user, target_room) ==
    IF r.casts /= <<>>
    THEN r
    ELSE PushBack(r.casts, insert_occupant(r.state, user, target_room))

\* The MoveUser arm after remove_occupant has answered r.
MoveInsert(r, user, target_room) ==
    PushBack(r.casts, insert_occupant(r.state, user, target_room))

\* The RecordMessage arm after record_chat_message has answered c.
MsgCast(c, msg_log) ==
    [state |-> c.state, casts |-> <<Broadcast(MsgReceived(msg_log), c.recipients)>>]

\* handle: ok = FALSE is the Err of a payload without a handler.
handle(s, command, ord) ==
    CASE command.payload.type = "DropUser" ->
            Ok(handle_drop_user(s, command.user, ord))
      [] command.payload.type = "RegisterUser" ->
            Ok(PushBack(<<register_user(command.user)>>,
                        insert_occupant(s, command.user, "Hub")))
      [] command.payload.type = "MoveUser" ->
            Ok(MoveInsert(remove_occupant(s, command.user, ord), command.user,
                          command.payload.target_room))
      [] command.payload.type = "RecordMessage" ->
            Ok(MsgCast(record_chat_message(
                           s, command.user,
                           MessageLog(command.user, command.payload.message), ord),
                       MessageLog(command.user, command.payload.message)))
      [] OTHER -> [ok |-> FALSE, state |-> s, casts |-> <<>>]

\* --------------------------------------------------------------------------
\* EventBus (bus is the subscribers map: a function from users to channels)
\* --------------------------------------------------------------------------
\* subscribe with a slip: the entry is not inserted.
subscribeNothing(bus, user, delivery_channel) ==
    [bus |-> bus, ok |-> user \notin DOMAIN bus]

\* HashMap::insert replaces an existing entry; Some(_) is the Err.
subscribe(bus, user, delivery_channel) ==
    [bus |-> [v \in DOMAIN bus \cup {user} |->
                 IF v = user THEN delivery_channel ELSE bus[v]],
     ok |-> user \notin DOMAIN bus]

\* unsubscribe with a slip: the entry is looked up but not removed.
unsubscribeKeep(bus, user) == [bus |-> bus, ok |-> user \in DOMAIN bus]

unsubscribe(bus, user) ==
    [bus |-> [v \in DOMAIN bus \ {user} |-> bus[v]],
     ok |-> user \in DOMAIN bus]

NoDelivery == [c \in Users |-> <<>>]

\* The (event, recipient) pairs of one broadcast, in publishing order.
CastDeliveries(cast) ==
    [i \in 1..Len(cast.subscribers) |->
        [event |-> cast.event, to |-> cast.subscribers[i]]]

\* The (event, recipient) pairs of a sequence of broadcasts.
RECURSIVE Deliveries(_)
Deliveries(casts) ==
    IF casts = <<>>
    THEN <<>>
    ELSE CastDeliveries(Head(casts)) \o Deliveries(Tail(casts))

\* One unbounded_send(..).unwrap() of publish: acc is [chans, delivered, panic].
publish_one(bus, open, acc, d) ==
    IF d.to \notin DOMAIN bus
    THEN acc
    ELSE IF open[bus[d.to]]
         THEN [acc EXCEPT !.chans[bus[d.to]] = Append(@, d.event),
                          !.delivered[bus[d.to]] = Append(@, d.event)]
         ELSE [acc EXCEPT !.panic = TRUE]

\* publish for every broadcast of event_buf; a panic ends the task at once.
RECURSIVE publish(_, _, _, _)
publish(bus, open, acc, dels) ==
    IF dels = <<>> \/ acc.panic
    THEN acc
    ELSE publish(bus, open, publish_one(bus, open, acc, Head(dels)), Tail(dels))

\* --------------------------------------------------------------------------
\* App::work: one iteration of the while loop, for the command at the head of
\* the gateway channel
\* --------------------------------------------------------------------------
AppState == [occupancy |-> occupancy, chat_logs |-> chat_logs,
             notifications |-> notifications]

\* The iteration ends in `?` or `return Err(e)`: run panics.
WorkErr(bus) ==
    [state |-> AppState, bus |-> bus, chans |-> event_source,
     status |-> "error", casts |-> <<>>, delivered |-> NoDelivery]

\* The deferred unsubscribe, un its answer.
WorkUnsubscribed(h, pub, un) ==
    [state |-> h.state, bus |-> un.bus, chans |-> pub.chans,
     status |-> IF un.ok THEN "running" ELSE "panic",
     casts |-> h.casts, delivered |-> pub.delivered]

\* WorkPublished with a slip: what a DropUser does to AppState and to the
\* EventBus is not kept.
WorkPublishedDropUndone(command, bus, h, pub) ==
    IF pub.panic
    THEN [state |-> h.state, bus |-> bus, chans |-> pub.chans,
          status |-> "panic", casts |-> h.casts, delivered |-> pub.delivered]
    ELSE IF command.payload.type = "DropUser"
         THEN [state |-> AppState, bus |-> bus, chans |-> pub.chans,
               status |-> "running", casts |-> h.casts,
               delivered |-> pub.delivered]
         ELSE WorkUnsubscribed(h, pub, [bus |-> bus, ok |-> TRUE])

\* After the while-let over event_buf, pub the outcome of the publishing.
WorkPublished(command, bus, h, pub) ==
    IF pub.panic
    THEN [state |-> h.state, bus |-> bus, chans |-> pub.chans,
          status |-> "panic", casts |-> h.casts, delivered |-> pub.delivered]
    ELSE WorkUnsubscribed(h, pub,
             IF command.payload.type = "DropUser"
             THEN unsubscribe(bus, command.user)
             ELSE [bus |-> bus, ok |-> TRUE])

\* WorkHandled with a slip: the user of a DropUser is unsubscribed before the
\* broadcasts are published.
WorkHandledDropFirst(command, bus, h) ==
    IF ~h.ok
    THEN WorkErr(bus)
    ELSE WorkPublished(command, bus, h,
             publish(IF command.payload.type = "DropUser"
                     THEN unsubscribe(bus, command.user).bus
                     ELSE bus,
                     rx_open,
                     [chans |-> event_source, delivered |-> NoDelivery,
                      panic |-> FALSE],
                     Deliveries(h.casts)))

\* After command_handler.handle, h its answer.
WorkHandled(command, bus, h) ==
    IF ~h.ok
    THEN WorkErr(bus)
    ELSE WorkPublished(command, bus, h,
             publish(bus, rx_open,
                     [chans |-> event_source, delivered |-> NoDelivery,
                      panic |-> FALSE],
                     Deliveries(h.casts)))

\* After the first match of the loop body, sub the answer of subscribe.
WorkSubscribed(command, ord, sub) ==
    IF ~sub.ok
    THEN WorkErr(sub.bus)
    ELSE WorkHandled(command, sub.bus, handle(AppState, command, ord))

work(command, ord) ==
    WorkSubscribed(command, ord,
        IF command.payload.type = "RegisterUser"
        THEN subscribe(subscribers, command.user, command.payload.sink)
        ELSE [bus |-> subscribers, ok |-> TRUE])

\* What the history keeps of an event: the snapshots are left out.
Brief(event) ==
    IF event.type \in {"UserJoined", "UserLeft"}
    THEN [type |-> event.type, user |-> event.user, room |-> event.room]
    ELSE event

Seen(events) == [i \in 1..Len(events) |-> Brief(events[i])]

\* The history of the messages of each room: a RecordMessage of a user that
\* is in a room adds its message to that room's.
Recorded(command) ==
    [r \in RoomNames |->
        IF /\ command.payload.type = "RecordMessage"
           /\ r \in DOMAIN occupancy
           /\ Contains(occupancy[r], command.user)
        THEN Append(recorded[r], MessageLog(command.user, command.payload.message))
        ELSE recorded[r]]

\* A sequence without the first occurrence of x.
Without(seq, x) ==
    IF Contains(seq, x)
    THEN SubSeq(seq, 1, Position(seq, x) - 1) \o
         SubSeq(seq, Position(seq, x) + 1, Len(seq))
    ELSE seq

\* The history of the order of entry: the handler takes the user out of the
\* room found for it (DropUser, MoveUser) and adds it to a room (RegisterUser,
\* MoveUser); a RegisterUser that subscribe refuses never reaches the handler.
EnteredAfter(command, found) ==
    [r \in RoomNames |->
        LET left == IF /\ command.payload.type \in {"DropUser", "MoveUser"}
                       /\ found = <<r>>
                    THEN Without(entered[r], command.user)
                    ELSE entered[r]
        IN  IF \/ command.payload.type = "MoveUser" /\ command.payload.target_room = r
               \/ /\ command.payload.type = "RegisterUser"
                  /\ command.user \notin DOMAIN subscribers
                  /\ r = "Hub"
            THEN Append(left, command.user)
            ELSE left]

Entered(command, ord) ==
    EnteredAfter(command, get_occupied_room(AppState, command.user, ord))

\* The state after one iteration whose outcome is w.
AppApply(command, w) ==
    /\ occupancy' = w.state.occupancy
    /\ chat_logs' = w.state.chat_logs
    /\ notifications' = w.state.notifications
    /\ subscribers' = w.bus
    /\ event_source' = w.chans
    /\ app_status' = w.status
    /\ last' = [cmd |-> command, casts |-> w.casts, delivered |-> w.delivered,
                pre |-> occupancy, bus |-> subscribers]
    /\ handled' = [handled EXCEPT ![command.user] = @ \cup {command.payload.type}]
    /\ recv' = [v \in Users |-> recv[v] \o Seen(w.delivered[v])]

\* AppWork with a slip: the newest command of the channel is taken.
AppWorkNewest ==
    /\ app_status = "running"
    /\ gateway_source /= <<>>
    /\ \A v \in Users : Len(event_source[v]) < MaxEvents
    /\ \E ord \in Orders :
          /\ AppApply(gateway_source[Len(gateway_source)],
                      work(gateway_source[Len(gateway_source)], ord))
          /\ entered' = Entered(gateway_source[Len(gateway_source)], ord)
    /\ gateway_source' = SubSeq(gateway_source, 1, Len(gateway_source) - 1)
    /\ UNCHANGED <<gateway_status, session_worker_source, rx_open, pc, sock,
                   wire, used, quota, sent>>
    /\ recorded' = Recorded(gateway_source[Len(gateway_source)])
    /\ UNCHANGED replies

AppWork ==
    /\ app_status = "running"
    /\ gateway_source /= <<>>
    /\ \A v \in Users : Len(event_source[v]) < MaxEvents
    /\ \E ord \in Orders :
          /\ AppApply(Head(gateway_source), work(Head(gateway_source), ord))
          /\ entered' = Entered(Head(gateway_source), ord)
    /\ gateway_source' = Tail(gateway_source)
    /\ UNCHANGED <<gateway_status, session_worker_source, rx_open, pc, sock,
                   wire, used, quota, sent>>
    /\ recorded' = Recorded(Head(gateway_source))
    /\ UNCHANGED replies

\* --------------------------------------------------------------------------
\* AppGateway::session_worker_fan_in: forward one command
\* --------------------------------------------------------------------------
\* GatewayFanIn with a slip: the newest command is forwarded first.
GatewayFanInLast ==
    /\ gateway_status = "running"
    /\ session_worker_source /= <<>>
    /\ session_worker_source' = SubSeq(session_worker_source, 1,
                                     Len(session_worker_source) - 1)
    /\ IF app_status = "running"
       THEN /\ gateway_source' =
                Append(gateway_source,
                       session_worker_source[Len(session_worker_source)])
            /\ UNCHANGED gateway_status
       ELSE /\ gateway_status' = "panic"
            /\ UNCHANGED gateway_source
    /\ UNCHANGED <<occupancy, chat_logs, notifications, subscribers, app_status,
                   event_source, rx_open, pc, sock, wire, used, quota, last, handled,
                   sent, recv, recorded,
                   entered, replies>>

GatewayFanIn ==
    /\ gateway_status = "running"
    /\ session_worker_source /= <<>>
    /\ session_worker_source' = Tail(session_worker_source)
    /\ IF app_status = "running"
       THEN /\ gateway_source' = Append(gateway_source, Head(session_worker_source))
            /\ UNCHANGED gateway_status
       ELSE /\ gateway_status' = "panic"
            /\ UNCHANGED gateway_source
    /\ UNCHANGED <<occupancy, chat_logs, notifications, subscribers, app_status,
                   event_source, rx_open, pc, sock, wire, used, quota, last, handled,
                   sent, recv, recorded,
                   entered, replies>>

\* --------------------------------------------------------------------------
\* SocketSendAdaptor: the frames a session writes; key is the secret the
\* frame is encrypted with
\* --------------------------------------------------------------------------
NoFrame == [body |-> "None"]

\* The plaintext answers of the handshake.
on_login_success(token) ==
    [body |-> "LoginSuccess", status |-> "Yes", token |-> token, key |-> "none"]

on_login_failed ==
    [body |-> "Empty", status |-> "JustNo", key |-> "none"]

\* prepare_send_msg_log with a slip: the encryption is left out.
prepare_send_msg_log_plain(msg, user, key) ==
    [body |-> "ChatRecv", status |-> "Yes", direct |-> FALSE,
     sender |-> Name(user), content |-> msg.contents, key |-> "none"]

\* build_msg_log_server_msg takes the sender from the user handed in.
prepare_send_msg_log(msg, user, key) ==
    [body |-> "ChatRecv", status |-> "Yes", direct |-> FALSE,
     sender |-> Name(user), content |-> msg.contents, key |-> key]

prepare_send_time(key) ==
    [body |-> "Empty", status |-> "Yes", key |-> key]

room_data_response(key, msg_log, notes, names, room) ==
    [body |-> "RoomData", status |-> "Yes", logs |-> msg_log,
     occupants |-> names, key |-> key]

\* --------------------------------------------------------------------------
\* SessionWorker
\* --------------------------------------------------------------------------
\* send_command with a slip: the command jumps the queue.
SendCommandFront(u, command, next) ==
    IF gateway_status = "running"
    THEN /\ session_worker_source' = <<command>> \o session_worker_source
         /\ sent' = [sent EXCEPT ![u] = Append(@, command)]
         /\ pc' = [pc EXCEPT ![u] = next]
    ELSE /\ pc' = [pc EXCEPT ![u] = "panic"]
         /\ UNCHANGED <<session_worker_source, sent>>

\* SessionBus::send_command: unbounded_send(..).unwrap() on the gateway channel.
SendCommand(u, command, next) ==
    IF gateway_status = "running"
    THEN /\ session_worker_source' = Append(session_worker_source, command)
         /\ sent' = [sent EXCEPT ![u] = Append(@, command)]
         /\ pc' = [pc EXCEPT ![u] = next]
    ELSE /\ pc' = [pc EXCEPT ![u] = "panic"]
         /\ UNCHANGED <<session_worker_source, sent>>

\* EndSession with a slip: the loop is left without the DropUser command.
EndSessionSilent(u) ==
    /\ pc' = [pc EXCEPT ![u] = "ending"]
    /\ UNCHANGED <<session_worker_source, sent>>

\* The break out of 'main_loop and the first statement of end_session.
EndSession(u) == SendCommand(u, DropUser(u), "ending")

\* The first frames a client can open with: a Login without token, a Login
\* after which the client is gone, a Login that carries a token, a ClientMsg
\* with another body, a Binary frame that is no ClientMsg, a frame that is not
\* Binary, and no frame at all.
FirstFrames ==
    {"Login", "LoginGone", "LoginToken", "NotLogin", "Garbage", "Text", "None"}

\* SessLogin with a slip: the token of the Login frame is not looked at.
SessLoginAnyToken(u) ==
    /\ pc[u] = "connected"
    /\ \E first \in quota[u].first :
          /\ used' = [used EXCEPT ![u].first = first]
          /\ CASE first \in {"Login", "LoginToken"} ->
                    /\ wire' = [wire EXCEPT ![u] = on_login_success(u)]
                    /\ pc' = [pc EXCEPT ![u] = "spawned"]
                    /\ UNCHANGED sock
               [] first = "NotLogin" ->
                    /\ wire' = [wire EXCEPT ![u] = on_login_failed]
                    /\ pc' = [pc EXCEPT ![u] = "refused"]
                    /\ sock' = [sock EXCEPT ![u] = "shut"]
               [] OTHER ->
                    /\ pc' = [pc EXCEPT ![u] = "refused"]
                    /\ sock' = [sock EXCEPT ![u] = "shut"]
                    /\ UNCHANGED wire
    /\ UNCHANGED <<occupancy, chat_logs, notifications, subscribers, app_status,
                   gateway_status, session_worker_source, gateway_source,
                   event_source, rx_open, quota, last, handled, sent, recv,
                   recorded,
                   entered, replies>>

\* login_handshake: handle_client_initiation reads the first frame,
\* handle_login_attempt answers it; spawn_user_session spawns the session
\* only when they return Ok.
SessLogin(u) ==
    /\ pc[u] = "connected"
    /\ \E first \in quota[u].first :
          /\ used' = [used EXCEPT ![u].first = first]
          /\ CASE first = "Login" ->
                    /\ wire' = [wire EXCEPT ![u] = on_login_success(u)]
                    /\ pc' = [pc EXCEPT ![u] = "spawned"]
                    /\ UNCHANGED sock
               [] first \in {"LoginToken", "NotLogin"} ->
                    /\ wire' = [wire EXCEPT ![u] = on_login_failed]
                    /\ pc' = [pc EXCEPT ![u] = "refused"]
                    /\ sock' = [sock EXCEPT ![u] = "shut"]
               [] OTHER ->
                    /\ pc' = [pc EXCEPT ![u] = "refused"]
                    /\ sock' = [sock EXCEPT ![u] = "shut"]
                    /\ UNCHANGED wire
    /\ UNCHANGED <<occupancy, chat_logs, notifications, subscribers, app_status,
                   gateway_status, session_worker_source, gateway_source,
                   event_source, rx_open, quota, last, handled, sent, recv,
                   recorded,
                   entered, replies>>

\* SessRegister with a slip: the session registers a second time from its
\* main loop.
SessRegisterAgain(u) ==
    /\ pc[u] \in {"spawned", "main"}
    /\ Len(sent[u]) < 2
    /\ SendCommand(u, RegisterUser(u, u), "main")
    /\ UNCHANGED <<occupancy, chat_logs, notifications, subscribers, app_status,
                   gateway_status, gateway_source, event_source, rx_open, sock,
                   wire, used, quota, last, handled,
                   recv, recorded,
                   entered, replies>>

\* run, up to the main loop: give_sink and the RegisterUser command.
SessRegister(u) ==
    /\ pc[u] = "spawned"
    /\ SendCommand(u, RegisterUser(u, u), "main")
    /\ UNCHANGED <<occupancy, chat_logs, notifications, subscribers, app_status,
                   gateway_status, gateway_source, event_source, rx_open, sock,
                   wire, used, quota, last, handled,
                   recv, recorded,
                   entered, replies>>

\* A frame the main loop reads from the socket: what it is, and the token of
\* the ClientMsg ("own": Some(id of the session's user), "other": Some(another
\* id), "none": None or no ClientMsg at all).
Frame(kind, token) == [kind |-> kind, token |-> token]

\* The client may send another data frame: the queues are within the bounds.
ClientMaySend ==
    Len(session_worker_source) + Len(gateway_source) < MaxQueue

\* A Binary frame that decrypts to SendToRoom; the client numbers its messages.
SessSendToRoom(u) ==
    /\ pc[u] = "main" /\ sock[u] = "open" /\ ClientMaySend
    /\ used[u].msgs < quota[u].msgs
    /\ \E token \in quota[u].tokens :
          used' = [used EXCEPT ![u].msgs = @ + 1,
                               ![u].frames = Append(@, Frame("SendToRoom", token))]
    /\ SendCommand(u, RecordMessage(u, used[u].msgs + 1), "main")
    /\ UNCHANGED <<occupancy, chat_logs, notifications, subscribers, app_status,
                   gateway_status, gateway_source, event_source, rx_open, sock,
                   wire, quota, last, handled,
                   recv, recorded,
                   entered, replies>>

\* A Binary frame that decrypts to Move{target}.
SessMove(u) ==
    /\ pc[u] = "main" /\ sock[u] = "open" /\ ClientMaySend
    /\ used[u].moves < quota[u].moves
    /\ \E token \in quota[u].tokens :
          used' = [used EXCEPT ![u].moves = @ + 1,
                               ![u].frames = Append(@, Frame("Move", token))]
    /\ \E target \in quota[u].targets : SendCommand(u, MoveUser(u, target), "main")
    /\ UNCHANGED <<occupancy, chat_logs, notifications, subscribers, app_status,
                   gateway_status, gateway_source, event_source, rx_open, sock,
                   wire, quota, last, handled,
                   recv, recorded,
                   entered, replies>>

\* SessGetTime with a slip: the Time command goes to App like the others.
SessGetTimeToApp(u) ==
    /\ pc[u] = "main" /\ sock[u] = "open"
    /\ used[u].misc < quota[u].misc
    /\ \E token \in quota[u].tokens :
          used' = [used EXCEPT ![u].misc = @ + 1, ![u].times = @ + 1,
                               ![u].frames = Append(@, Frame("GetTime", token))]
    /\ SendCommand(u, Time(u), "main")
    /\ UNCHANGED <<occupancy, chat_logs, notifications, subscribers, app_status,
                   gateway_status, gateway_source, event_source, rx_open, sock,
                   wire, quota, last, handled, recv, recorded,
                   entered, replies>>

\* A Binary frame that decrypts to GetTime: answered on the socket.
SessGetTime(u) ==
    /\ pc[u] = "main" /\ sock[u] = "open"
    /\ used[u].misc < quota[u].misc
    /\ \E token \in quota[u].tokens :
          used' = [used EXCEPT ![u].misc = @ + 1, ![u].times = @ + 1,
                               ![u].frames = Append(@, Frame("GetTime", token))]
    /\ wire' = [wire EXCEPT ![u] = prepare_send_time(u)]
    /\ replies' = [replies EXCEPT ![u] = @ + 1]
    /\ UNCHANGED <<occupancy, chat_logs, notifications, subscribers, app_status,
                   gateway_status, session_worker_source, gateway_source,
                   event_source, rx_open, pc, sock, quota, last, handled,
                   sent, recv, recorded,
                   entered>>

\* SessSkipFrame with a slip: the loop breaks as it does on a bad frame.
SessSkipFrameBreak(u) ==
    /\ pc[u] = "main" /\ sock[u] = "open"
    /\ used[u].misc < quota[u].misc
    /\ \E kind \in {"Text", "NoClientMsg"} :
          used' = [used EXCEPT ![u].misc = @ + 1,
                               ![u].frames = Append(@, Frame(kind, "none"))]
    /\ EndSession(u)
    /\ UNCHANGED <<occupancy, chat_logs, notifications, subscribers, app_status,
                   gateway_status, gateway_source, event_source, rx_open, sock,
                   wire, quota, last, handled,
                   recv, recorded,
                   entered, replies>>

\* A frame the main loop skips: Text/Ping/Pong ("Text"), or a Binary frame
\* that decrypts but does not deserialize ("NoClientMsg").
SessSkipFrame(u) ==
    /\ pc[u] = "main" /\ sock[u] = "open"
    /\ used[u].misc < quota[u].misc
    /\ \E kind \in {"Text", "NoClientMsg"} :
          used' = [used EXCEPT ![u].misc = @ + 1,
                               ![u].frames = Append(@, Frame(kind, "none"))]
    /\ UNCHANGED <<occupancy, chat_logs, notifications, subscribers, app_status,
                   gateway_status, session_worker_source, gateway_source,
                   event_source, rx_open, pc, sock, wire, quota, last, handled,
                   sent, recv, recorded,
                   entered, replies>>

\* SessBadFrame with a slip: the frame is skipped and the loop goes on.
SessBadFrameSkip(u) ==
    /\ pc[u] = "main" /\ sock[u] = "open"
    /\ used[u].misc < quota[u].misc
    /\ \E kind \in {"Undecryptable", "OtherBody"} :
          used' = [used EXCEPT ![u].misc = @ + 1,
                               ![u].frames =
                                   Append(@, Frame(kind, IF kind = "OtherBody"
                                                         THEN "own" ELSE "none"))]
    /\ UNCHANGED <<occupancy, chat_logs, notifications, subscribers, app_status,
                   gateway_status, session_worker_source, gateway_source,
                   event_source, rx_open, pc, sock, wire, quota, last, handled,
                   sent, recv, recorded,
                   entered, replies>>

\* A frame that breaks the main loop: a Binary frame that does not decrypt
\* ("Undecryptable"), or a ClientMsg whose body parse_client_msg rejects, such
\* as a second Login ("OtherBody": handle_client_msg returns Err).
SessBadFrame(u) ==
    /\ pc[u] = "main" /\ sock[u] = "open"
    /\ used[u].misc < quota[u].misc
    /\ \E kind \in {"Undecryptable", "OtherBody"} :
          used' = [used EXCEPT ![u].misc = @ + 1,
                               ![u].frames =
                                   Append(@, Frame(kind, IF kind = "OtherBody"
                                                         THEN "own" ELSE "none"))]
    /\ EndSession(u)
    /\ UNCHANGED <<occupancy, chat_logs, notifications, subscribers, app_status,
                   gateway_status, gateway_source, event_source, rx_open, sock,
                   wire, quota, last, handled,
                   recv, recorded,
                   entered, replies>>

\* The client ends the connection: the socket will yield a Close frame or
\* a transport error, and writes to it fail.
ClientClose(u) ==
    /\ pc[u] = "main"
    /\ sock[u] = "open"
    /\ quota[u].closes = 1
    /\ sock' = [sock EXCEPT ![u] = "closed"]
    /\ UNCHANGED <<occupancy, chat_logs, notifications, subscribers, app_status,
                   gateway_status, session_worker_source, gateway_source,
                   event_source, rx_open, pc, wire, used, quota, last, handled,
                   sent, recv, recorded,
                   entered, replies>>

\* The socket's stream ends: user_source.next() yields None from now on, which
\* the select! branch `Some(msg) = ..` does not match, and writes fail.
ClientEnd(u) ==
    /\ pc[u] = "main"
    /\ sock[u] = "open"
    /\ quota[u].ends = 1
    /\ sock' = [sock EXCEPT ![u] = "ended"]
    /\ UNCHANGED <<occupancy, chat_logs, notifications, subscribers, app_status,
                   gateway_status, session_worker_source, gateway_source,
                   event_source, rx_open, pc, wire, used, quota, last, handled,
                   sent, recv, recorded,
                   entered, replies>>

\* SessSockEnd with a slip: DropUser is sent and the loop goes on.
SessSockEndStay(u) ==
    /\ pc[u] = "main"
    /\ sock[u] = "closed"
    /\ SendCommand(u, DropUser(u), "main")
    /\ UNCHANGED <<occupancy, chat_logs, notifications, subscribers, app_status,
                   gateway_status, gateway_source, event_source, rx_open, sock,
                   wire, used, quota, last, handled,
                   recv, recorded,
                   entered, replies>>

\* The main loop reads Ok(Message::Close) or Err(e) and breaks.
SessSockEnd(u) ==
    /\ pc[u] = "main"
    /\ sock[u] = "closed"
    /\ EndSession(u)
    /\ UNCHANGED <<occupancy, chat_logs, notifications, subscribers, app_status,
                   gateway_status, gateway_source, event_source, rx_open, sock,
                   wire, used, quota, last, handled,
                   recv, recorded,
                   entered, replies>>

\* handle_event: the frame to write, <<>> when the event writes nothing.
handle_event(u, event) ==
    CASE event.type = "UserRegistered" -> <<>>
      [] event.type = "MsgReceived" -> <<prepare_send_msg_log(event.msg, u, u)>>
      [] OTHER -> <<room_data_response(u, event.msg_log, event.notifications,
                                       event.occupant_names, event.room)>>

\* The main loop takes an event; a failed socket write breaks the loop.
SessEvent(u) ==
    /\ pc[u] = "main"
    /\ event_source[u] /= <<>>
    /\ event_source' = [event_source EXCEPT ![u] = Tail(@)]
    /\ LET frame == handle_event(u, Head(event_source[u]))
       IN  IF frame = <<>>
           THEN UNCHANGED <<wire, pc, session_worker_source, sent>>
           ELSE IF sock[u] = "open"
                THEN /\ wire' = [wire EXCEPT ![u] = frame[1]]
                     /\ UNCHANGED <<pc, session_worker_source, sent>>
                ELSE /\ EndSession(u)
                     /\ UNCHANGED wire
    /\ UNCHANGED <<occupancy, chat_logs, notifications, subscribers, app_status,
                   gateway_status, gateway_source, rx_open, sock, used, quota,
                   last, handled,
                   recv, recorded,
                   entered, replies>>

\* end_session's loop: take events until a UserLeft of this user arrives;
\* run then returns and the session, with its receiver, is dropped.
SessEndRecv(u) ==
    /\ pc[u] = "ending"
    /\ event_source[u] /= <<>>
    /\ LET event == Head(event_source[u])
       IN  IF event.type = "UserLeft" /\ event.user = u
           THEN /\ pc' = [pc EXCEPT ![u] = "done"]
                /\ rx_open' = [rx_open EXCEPT ![u] = FALSE]
                /\ event_source' = [event_source EXCEPT ![u] = <<>>]
           ELSE /\ event_source' = [event_source EXCEPT ![u] = Tail(@)]
                /\ UNCHANGED <<pc, rx_open>>
    /\ UNCHANGED <<occupancy, chat_logs, notifications, subscribers, app_status,
                   gateway_status, session_worker_source, gateway_source, sock,
                   wire, used, quota, last, handled,
                   sent, recv, recorded,
                   entered, replies>>

\* --------------------------------------------------------------------------
\* Initial state and next-state relation
\* --------------------------------------------------------------------------
Quota(g, v, x, c, t) ==
    [conn |-> 1, msgs |-> g, moves |-> v, misc |-> x, closes |-> c, targets |-> t,
     first |-> {"Login"}, tokens |-> {"own"}, ends |-> 0]

Absent == [conn |-> 0, msgs |-> 0, moves |-> 0, misc |-> 0, closes |-> 0,
           targets |-> {}, first |-> {}, tokens |-> {}, ends |-> 0]

Quiet == Quota(0, 0, 0, 0, {})

\* Three clients in Hub: one moves, one chats, one only listens.
Trio == [u \in Users |->
            CASE u = "u1" -> Quota(0, MaxMoves, 0, 0, RoomNames)
              [] u = "u2" -> Quota(MaxMsgs, 0, 0, 0, {})
              [] OTHER -> Quiet]

\* One client chats and disconnects while the other moves to the lobby.
Pair == [u \in Users |->
            CASE u = "u1" -> Quota(MaxMsgs, 0, 0, 1, {})
              [] u = "u2" -> Quota(0, MaxMoves, 0, 0, {"lobby"})
              [] OTHER -> Absent]

\* Two clients that move, so that a mover meets an occupant of its target.
Movers == [u \in Users |->
              CASE u = "u1" -> Quota(0, MaxMoves, 0, 0, RoomNames)
                [] u = "u2" -> Quota(0, MaxMoves, 0, 0, {"lobby"})
                [] OTHER -> Absent]

\* One client sends frames that are not commands and disconnects.
Misc == [u \in Users |->
            CASE u = "u1" -> Quota(0, 0, MaxMisc, 1, {})
              [] u = "u2" -> Quiet
              [] OTHER -> Absent]

\* Two clients that only connect and disconnect.
Leavers == [u \in Users |->
               CASE u \in {"u1", "u2"} -> Quota(0, 0, 0, 1, {})
                 [] OTHER -> Absent]

\* One client that sends many messages, beside a quiet one.
Chatty == [u \in Users |->
              CASE u = "u1" -> Quota(ChattyMsgs, 0, 0, 0, {})
                [] u = "u2" -> Quiet
                [] OTHER -> Absent]

\* One client that moves to Hub many times, beside a quiet one.
Mover == [u \in Users |->
             CASE u = "u1" -> Quota(0, MoverMoves, 0, 0, {"Hub"})
               [] u = "u2" -> Quiet
               [] OTHER -> Absent]

\* One client that chats and moves on the same socket, beside a quiet one.
Talker == [u \in Users |->
              CASE u = "u1" -> Quota(MaxMsgs, MaxMoves, 0, 0, {"lobby"})
                [] u = "u2" -> Quiet
                [] OTHER -> Absent]

\* One client whose handshake fails, beside a quiet one.
Strangers == [u \in Users |->
                 CASE u = "u1" -> [Quiet EXCEPT !.first = FirstFrames \ {"Login"}]
                   [] u = "u2" -> Quiet
                   [] OTHER -> Absent]

\* One client whose frames carry no token or the id of another user.
Forger == [u \in Users |->
              CASE u = "u1" -> [Quota(MaxMsgs, MaxMoves, 1, 0, {"lobby"})
                                    EXCEPT !.tokens = {"none", "other"}]
                [] u = "u2" -> Quiet
                [] OTHER -> Absent]

\* One client whose socket stream ends, beside a quiet one.
Vanisher == [u \in Users |->
                CASE u = "u1" -> [Quiet EXCEPT !.ends = 1]
                  [] u = "u2" -> Quiet
                  [] OTHER -> Absent]

Profiles == {Trio, Pair, Movers, Misc, Leavers, Chatty, Mover, Talker, Strangers,
             Forger, Vanisher}

NoCommand == [user |-> "none", payload |-> [type |-> "None"]]

Init ==
    /\ occupancy = [r \in {"Hub"} |-> <<>>]
    /\ chat_logs = [r \in {"Hub"} |-> <<>>]
    /\ notifications = [r \in {"Hub"} |-> <<>>]
    /\ subscribers = [v \in {} |-> "none"]
    /\ app_status = "running"
    /\ gateway_status = "running"
    /\ session_worker_source = <<>>
    /\ gateway_source = <<>>
    /\ event_source = [u \in Users |-> <<>>]
    /\ rx_open = [u \in Users |-> TRUE]
    /\ quota \in Profiles
    /\ pc = [u \in Users |-> IF quota[u].conn = 1 THEN "connected" ELSE "idle"]
    /\ sock = [u \in Users |-> "open"]
    /\ wire = [u \in Users |-> NoFrame]
    /\ used = [u \in Users |-> [msgs |-> 0, moves |-> 0, misc |-> 0, times |-> 0,
                                 first |-> "none", frames |-> <<>>]]
    /\ last = [cmd |-> NoCommand, casts |-> <<>>, delivered |-> NoDelivery,
               pre |-> [r \in {"Hub"} |-> <<>>], bus |-> NoBus]
    /\ handled = [u \in Users |-> {}]
    /\ sent = [u \in Users |-> <<>>]
    /\ recv = [u \in Users |-> <<>>]
    /\ recorded = [r \in RoomNames |-> <<>>]
    /\ entered = [r \in RoomNames |-> <<>>]
    /\ replies = [u \in Users |-> 0]

Next ==
    \/ AppWork
    \/ GatewayFanIn
    \/ \E u \in Users :
          \/ SessLogin(u)
          \/ SessRegister(u)
          \/ SessSendToRoom(u)
          \/ SessMove(u)
          \/ SessGetTime(u)
          \/ SessSkipFrame(u)
          \/ SessBadFrame(u)
          \/ ClientClose(u)
          \/ ClientEnd(u)
          \/ SessSockEnd(u)
          \/ SessEvent(u)
          \/ SessEndRecv(u)

Spec == Init /\ [][Next]_vars

\* App::work takes the command at the head of its channel. A step of Next
\* that removes the head of gateway_source is a step of AppWork, and one is
\* possible exactly when AppWork is.
AppPolled ==
    /\ app_status = "running"
    /\ gateway_source /= <<>>
    /\ \A v \in Users : Len(event_source[v]) < MaxEvents
    /\ gateway_source' = Tail(gateway_source)

\* The code's scheduling: the App, gateway and session tasks are polled
\* whenever they can proceed; clients send and close as they like.
Fairness ==
    /\ WF_gateway_source(AppPolled)
    /\ WF_vars(GatewayFanIn)
    /\ \A u \in Users :
          /\ WF_vars(SessLogin(u))
          /\ WF_vars(SessRegister(u))
          /\ WF_vars(SessSockEnd(u))
          /\ WF_vars(SessEvent(u))
          /\ WF_vars(SessEndRecv(u))

\* The clients of which some session ends or should end: by a close of the
\* socket, by the end of its stream or by a frame the session cannot read.
Closers == {Pair, Misc, Leavers, Vanisher}

FairInit == Init /\ quota \in Closers

FairSpec == FairInit /\ [][Next]_vars /\ Fairness

\* --------------------------------------------------------------------------
\* App on its own: App::work fed with any commands a holder of the gateway
\* sink can send, the sessions of the users taking their events unless their
\* task is gone
\* --------------------------------------------------------------------------
FeedUsers == {"u1", "u2"}

FeedCommands ==
    UNION {{RegisterUser(u, u), DropUser(u), MoveUser(u, "lobby"),
            MoveUser(u, "Hub"), RecordMessage(u, 1), Time(u),
            GetRecipients(u)} : u \in FeedUsers}
        \cup {RegisterUser("u1", "u2")}

Feeds == UNION {[1..n -> FeedCommands] : n \in 0..MaxFeed}

\* The sessions whose task is gone, and with it the receiver of its event
\* channel: none, or the second user's.
Gone == {{}, {"u2"}}

AppInit ==
    /\ occupancy = [r \in {"Hub"} |-> <<>>]
    /\ chat_logs = [r \in {"Hub"} |-> <<>>]
    /\ notifications = [r \in {"Hub"} |-> <<>>]
    /\ subscribers = NoBus
    /\ app_status = "running"
    /\ gateway_status = "running"
    /\ session_worker_source = <<>>
    /\ gateway_source \in Feeds
    /\ event_source = [u \in Users |-> <<>>]
    /\ \E gone \in Gone : rx_open = [u \in Users |-> u \notin gone]
    /\ quota = [u \in Users |-> IF u \in FeedUsers THEN Quiet ELSE Absent]
    /\ pc = [u \in Users |-> CASE ~rx_open[u] -> "panic"
                               [] u \in FeedUsers -> "main"
                               [] OTHER -> "idle"]
    /\ sock = [u \in Users |-> "open"]
    /\ wire = [u \in Users |-> NoFrame]
    /\ used = [u \in Users |-> [msgs |-> 0, moves |-> 0, misc |-> 0, times |-> 0,
                                 first |-> "none", frames |-> <<>>]]
    /\ last = [cmd |-> NoCommand, casts |-> <<>>, delivered |-> NoDelivery,
               pre |-> [r \in {"Hub"} |-> <<>>], bus |-> NoBus]
    /\ handled = [u \in Users |-> {}]
    /\ sent = [u \in Users |-> <<>>]
    /\ recv = [u \in Users |-> <<>>]
    /\ recorded = [r \in RoomNames |-> <<>>]
    /\ entered = [r \in RoomNames |-> <<>>]
    /\ replies = [u \in Users |-> 0]

AppNext ==
    \/ AppWork
    \/ \E u \in Users : SessEvent(u)

AppSpec == AppInit /\ [][AppNext]_vars

\* --------------------------------------------------------------------------
\* Properties
\* --------------------------------------------------------------------------
RoomsOf(u) == {r \in DOMAIN occupancy : Contains(occupancy[r], u)}

Handled(u, kind) == kind \in handled[u]

LastIs(kind) == last.cmd.payload.type = kind

\* The room the user of the last command was in before the command.
LastOld == {r \in DOMAIN last.pre : Contains(last.pre[r], last.cmd.user)}

\* C1: every user is in the occupancy list of at most one room, and at most
\* once in that list.
C1_OneRoomPerUser ==
    \A u \in Users :
        /\ Cardinality(RoomsOf(u)) <= 1
        /\ \A r \in DOMAIN occupancy : Count(occupancy[r], u) <= 1

\* A user has moved to the lobby, another has been dropped, a third kind has
\* stayed: the removals and insertions C1 is about have all happened.
C1_Witness ==
    /\ \E u \in Users : Handled(u, "MoveUser") /\ RoomsOf(u) = {"lobby"}
    /\ \E v \in Users : Handled(v, "DropUser") /\ RoomsOf(v) = {}

\* C2: every chat log and every notification log holds at most max_logs entries.
C2_LogsBounded ==
    /\ \A r \in DOMAIN chat_logs : Len(chat_logs[r]) <= max_logs
    /\ \A r \in DOMAIN notifications : Len(notifications[r]) <= max_logs

\* Hub's chat log is full and its oldest messages have been evicted.
C2_Witness ==
    /\ Len(chat_logs["Hub"]) = max_logs
    /\ chat_logs["Hub"][1].contents = 6
    /\ LastIs("RecordMessage")

\* C3 (as claimed): every room of occupancy is a key of chat_logs and of
\* notifications.
C3_Claim ==
    \A r \in DOMAIN occupancy :
        r \in DOMAIN chat_logs /\ r \in DOMAIN notifications

\* C4: a user has an EventBus entry exactly when App has handled its
\* RegisterUser and not yet its DropUser.
C4_BusFollowsLifecycle ==
    \A u \in Users :
        (u \in DOMAIN subscribers)
            <=> (Handled(u, "RegisterUser") /\ ~Handled(u, "DropUser"))

\* One user has been dropped and unsubscribed while another is still subscribed.
C4_Witness ==
    \E u, v \in Users :
        /\ Handled(u, "DropUser") /\ u \notin DOMAIN subscribers
        /\ Handled(v, "RegisterUser") /\ v \in DOMAIN subscribers

\* The events of a sequence that are of the given type and about the user.
About(events, type, user) ==
    SelectSeq(events, LAMBDA e : e.type = type /\ e.user = user)

\* C5 (as claimed): a session that has left its main loop and sent DropUser
\* eventually receives its own UserLeft, and end_session returns.
C5_Claim == \A u \in Users : (pc[u] = "ending") ~> (pc[u] = "done")

\* C6 (as claimed): DropUser emits exactly one UserLeft broadcast whose
\* recipients contain the dropped user and the occupants of its room.
C6_Claim ==
    LastIs("DropUser") =>
        /\ Len(last.casts) = 1
        /\ last.casts[1].event.type = "UserLeft"
        /\ last.casts[1].event.user = last.cmd.user
        /\ Contains(last.casts[1].subscribers, last.cmd.user)
        /\ \A r \in LastOld : \A i \in 1..Len(occupancy[r]) :
              Contains(last.casts[1].subscribers, occupancy[r][i])

\* The users that shared the room of the last command's user, without it.
LastOthers ==
    {v \in Users \ {last.cmd.user} : \E r \in LastOld : Contains(last.pre[r], v)}

\* C7: after a client closes its socket App eventually handles the user's
\* DropUser; handling it puts exactly one UserLeft of that user into the
\* channel of every other occupant of its room; from then on the user is in no
\* occupancy list and has no EventBus entry, as is every user whose session
\* has exited.
C7_CloseLeadsToCleanup ==
    /\ \A u \in Users : (sock[u] = "closed") ~> Handled(u, "DropUser")
    /\ [](LastIs("DropUser") =>
             \A v \in LastOthers :
                 Len(About(last.delivered[v], "UserLeft", last.cmd.user)) = 1)
    /\ [](\A u \in Users :
             (Handled(u, "DropUser") \/ pc[u] = "done") =>
                 RoomsOf(u) = {} /\ u \notin DOMAIN subscribers)

\* A client has closed, its DropUser has been handled, and the user it shared
\* the room with has been sent the UserLeft.
C7_Witness ==
    /\ LastIs("DropUser")
    /\ sock[last.cmd.user] = "closed"
    /\ LastOthers /= {}
    /\ RoomsOf(last.cmd.user) = {}

\* The room the user of the last command is in after the command.
LastRoom == CHOOSE r \in RoomsOf(last.cmd.user) : TRUE

\* C8: RecordMessage emits exactly one MsgReceived broadcast; its recipients
\* are the occupancy list of the sender's room, sender included; each of them
\* gets the event once and every other user gets nothing.
C8_MessageToRoom ==
    LastIs("RecordMessage") =>
        /\ RoomsOf(last.cmd.user) /= {}
        /\ Len(last.casts) = 1
        /\ last.casts[1].event.type = "MsgReceived"
        /\ last.casts[1].subscribers = occupancy[LastRoom]
        /\ Contains(last.casts[1].subscribers, last.cmd.user)
        /\ \A v \in Users :
              last.delivered[v] =
                  IF Contains(occupancy[LastRoom], v)
                  THEN <<last.casts[1].event>>
                  ELSE <<>>

\* A message went to a room of several occupants while a subscribed user was
\* in another room.
C8_Witness ==
    /\ LastIs("RecordMessage")
    /\ Len(last.casts[1].subscribers) >= 2
    /\ \E v \in DOMAIN subscribers :
          RoomsOf(v) /= {} /\ RoomsOf(v) /= RoomsOf(last.cmd.user)

\* C9: MoveUser emits UserLeft{room = old} then UserJoined{room = target};
\* afterwards the mover is in target and in no other room; every occupant that
\* stayed in old got exactly one UserLeft of the mover and every occupant of
\* target, the mover too, exactly one UserJoined of the mover.
C9_MoveBroadcasts ==
    LastIs("MoveUser") =>
        /\ Len(last.casts) = 2
        /\ last.casts[1].event.type = "UserLeft"
        /\ last.casts[1].event.user = last.cmd.user
        /\ {last.casts[1].event.room} = LastOld
        /\ last.casts[2].event.type = "UserJoined"
        /\ last.casts[2].event.user = last.cmd.user
        /\ last.casts[2].event.room = last.cmd.payload.target_room
        /\ last.cmd.payload.target_room \in DOMAIN occupancy
        /\ RoomsOf(last.cmd.user) = {last.cmd.payload.target_room}
        /\ Count(occupancy[last.cmd.payload.target_room], last.cmd.user) = 1
        /\ \A v \in LastOthers :
              Len(About(last.delivered[v], "UserLeft", last.cmd.user)) = 1
        /\ \A v \in Users :
              Contains(occupancy[last.cmd.payload.target_room], v) =>
                  Len(About(last.delivered[v], "UserJoined", last.cmd.user)) = 1

\* A move into a room that did not exist, leaving occupants behind.
C9_Witness ==
    /\ LastIs("MoveUser")
    /\ last.cmd.payload.target_room \notin DOMAIN last.pre
    /\ LastOthers /= {}

\* C10 (as claimed): the recipients of the UserLeft of a MoveUser include the
\* mover.
C10_Claim ==
    LastIs("MoveUser") =>
        /\ last.casts[1].event.type = "UserLeft"
        /\ Contains(last.casts[1].subscribers, last.cmd.user)

\* C11: RegisterUser appends the user to Hub's occupancy and emits two
\* broadcasts in this order: UserRegistered{token = id} to the user alone, then
\* UserJoined{room = Hub} to every occupant of Hub, the user included.
C11_RegisterBroadcasts ==
    LastIs("RegisterUser") =>
        /\ occupancy["Hub"] = Append(last.pre["Hub"], last.cmd.user)
        /\ Len(last.casts) = 2
        /\ last.casts[1].event = [type |-> "UserRegistered", token |-> last.cmd.user]
        /\ last.casts[1].subscribers = <<last.cmd.user>>
        /\ last.casts[2].event.type = "UserJoined"
        /\ last.casts[2].event.user = last.cmd.user
        /\ last.casts[2].event.room = "Hub"
        /\ last.casts[2].subscribers = occupancy["Hub"]
        /\ Contains(last.casts[2].subscribers, last.cmd.user)

\* A user registered while another one was in Hub already.
C11_Witness ==
    /\ LastIs("RegisterUser")
    /\ last.pre["Hub"] /= <<>>
    /\ Len(last.casts[2].subscribers) >= 2

\* The commands on their way to App, the next one to be handled first.
InFlight == gateway_source \o session_worker_source

\* The commands of a sequence that are the user's.
Of(commands, u) == SelectSeq(commands, LAMBDA c : c.user = u)

\* The number of the user's commands App has taken from its channel.
Taken(u) == Len(sent[u]) - Len(Of(InFlight, u))

\* The messages among the first k commands the session has sent, in order.
Messages(u, k) ==
    LET msgs == SelectSeq(SubSeq(sent[u], 1, k),
                          LAMBDA c : c.payload.type = "RecordMessage")
    IN  [i \in 1..Len(msgs) |-> msgs[i].payload.message]

\* The messages of author a among the events put on r's channel, in order.
Echoes(r, a) ==
    LET evs == SelectSeq(recv[r], LAMBDA e : e.type = "MsgReceived"
                                             /\ e.msg.username = Name(a))
    IN  [i \in 1..Len(evs) |-> evs[i].msg.contents]

\* Each session numbers its messages 1, 2, .. as it sends them.
Ascending(seq) == \A i, j \in 1..Len(seq) : i < j => seq[i] < seq[j]

\* C12: the path session -> AppGateway -> App keeps one sender's commands in
\* the order sent, without loss or repetition, and the MsgReceived events of
\* one sender reach every recipient's channel in that order: the sender's own
\* channel gets each message App has taken, the others a part of them.
C12_SenderOrder ==
    \A a \in Users :
        /\ Taken(a) >= 0
        /\ Of(InFlight, a) = SubSeq(sent[a], Taken(a) + 1, Len(sent[a]))
        /\ Echoes(a, a) = Messages(a, Taken(a))
        /\ \A r \in Users :
              /\ Ascending(Echoes(r, a))
              /\ \A i \in 1..Len(Echoes(r, a)) :
                    \E j \in 1..Len(Echoes(a, a)) : Echoes(a, a)[j] = Echoes(r, a)[i]

\* Another session has received several messages of one sender, while two
\* commands of that sender were on their way at once.
C12_Witness ==
    \E a, r \in Users :
        /\ a /= r
        /\ Len(Echoes(r, a)) >= 2
        /\ Len(Of(InFlight, a)) >= 2

\* The events of its own that a command makes App put on the sender's channel.
OwnEvent(c) ==
    CASE c.payload.type = "RecordMessage" ->
            <<MsgReceived(MessageLog(c.user, c.payload.message))>>
      [] c.payload.type = "MoveUser" ->
            <<[type |-> "UserJoined", user |-> c.user,
               room |-> c.payload.target_room]>>
      [] c.payload.type = "RegisterUser" ->
            <<[type |-> "UserRegistered", token |-> c.user],
              [type |-> "UserJoined", user |-> c.user, room |-> "Hub"]>>
      [] OTHER -> <<>>

\* The own events that the first k commands of a session cause, in order.
RECURSIVE OwnEvents(_, _)
OwnEvents(commands, k) ==
    IF k = 0
    THEN <<>>
    ELSE OwnEvents(commands, k - 1) \o OwnEvent(commands[k])

\* The events about the user itself among the events put on its channel, in
\* order: UserRegistered, its own UserJoined events, the echoes of its messages.
OwnTrail(u) ==
    SelectSeq(recv[u],
              LAMBDA e : \/ e.type = "UserRegistered"
                         \/ e.type = "MsgReceived" /\ e.msg.username = Name(u)
                         \/ e.type = "UserJoined" /\ e.user = u)

\* C13: a session gets the echoes of its messages and the UserJoined events of
\* its moves in the order in which it sent the commands: the echo of a message
\* comes before the UserJoined of a move sent after it.
C13_OwnOrder ==
    \A u \in Users : OwnTrail(u) = OwnEvents(sent[u], Taken(u))

\* A session sent a message and then a move, and has been sent both events.
C13_Witness ==
    \E u \in Users :
        /\ Len(sent[u]) >= 3
        /\ sent[u][2].payload.type = "RecordMessage"
        /\ sent[u][3].payload.type = "MoveUser"
        /\ Len(OwnTrail(u)) = 4

\* The last n elements of a sequence, all of them when it has fewer.
LastN(seq, n) ==
    IF Len(seq) <= n THEN seq ELSE SubSeq(seq, Len(seq) - n + 1, Len(seq))

\* C14: after k messages have been recorded in a room its chat log holds the
\* last min(k, 25) of them in the order of recording, and so does the msg_log
\* of every UserJoined / UserLeft snapshot of the room.
C14_LastMessagesKept ==
    /\ \A r \in RoomNames :
          room_chat_logs(AppState, r) = LastN(recorded[r], max_logs)
    /\ \A i \in 1..Len(last.casts) :
          last.casts[i].event.type \in {"UserJoined", "UserLeft"} =>
              last.casts[i].event.msg_log =
                  LastN(recorded[last.casts[i].event.room], max_logs)

\* After the messages m1..m30 a user joins Hub: the snapshot is m6..m30.
C14_Witness ==
    /\ LastIs("RegisterUser")
    /\ Len(recorded["Hub"]) = 30
    /\ last.casts[2].event.msg_log = [i \in 1..25 |-> MessageLog("u1", i + 5)]
    /\ chat_logs["Hub"] = last.casts[2].event.msg_log

C16_Claim ==
    \A u \in Users :
        used[u].first \in {"Text", "Garbage", "NotLogin", "LoginToken"} =>
            /\ wire[u] = on_login_failed
            /\ sock[u] = "shut"

\* C17: a connection whose handshake fails gets no SessionWorker: it sends no
\* command, no command of it reaches App, and its user is in no occupancy list
\* and not in the EventBus.
C17_NoSessionWithoutLogin ==
    \A u \in Users :
        used[u].first \in FirstFrames \ {"Login"} =>
            /\ pc[u] = "refused"
            /\ sent[u] = <<>>
            /\ Of(InFlight, u) = <<>>
            /\ handled[u] = {}
            /\ RoomsOf(u) = {}
            /\ u \notin DOMAIN subscribers
            /\ recv[u] = <<>>

\* A Login with a token has been refused while another user is in Hub.
C17_Witness ==
    \E u, v \in Users :
        /\ used[u].first = "LoginToken"
        /\ wire[u] = on_login_failed
        /\ Handled(v, "RegisterUser")
        /\ RoomsOf(v) = {"Hub"}

\* C18 (as claimed): a ChatRecv frame a session writes carries the username
\* and the content of a MsgReceived event that was put on its channel, in
\* every recipient's session.
C18_Claim ==
    \A u \in Users :
        wire[u].body = "ChatRecv" =>
            \E i \in 1..Len(recv[u]) :
                /\ recv[u][i].type = "MsgReceived"
                /\ recv[u][i].msg.username = wire[u].sender
                /\ recv[u][i].msg.contents = wire[u].content

\* The answers of the handshake.
HandshakeFrames == {on_login_success(u) : u \in Users} \cup {on_login_failed}

\* C19: the answers of the handshake are the only frames written in plaintext;
\* every frame a SessionWorker writes (GetTime reply, ChatRecv, RoomData) is
\* encrypted with the shared secret of its own session.
C19_OwnKeyAfterHandshake ==
    \A u \in Users :
        /\ wire[u].body \in {"None", "LoginSuccess", "Empty", "ChatRecv", "RoomData"}
        /\ wire[u] \in HandshakeFrames => wire[u].key = "none"
        /\ (wire[u].body /= "None" /\ wire[u] \notin HandshakeFrames) =>
              /\ pc[u] \in {"main", "ending", "done", "panic"}
              /\ wire[u].key = u

\* Two sessions have each written an encrypted frame.
C19_Witness ==
    \E u, v \in Users :
        /\ u /= v
        /\ wire[u].body = "ChatRecv" /\ wire[u].key = u
        /\ wire[v].body = "RoomData" /\ wire[v].key = v

\* C20 (as claimed): after a command for which CommandHandler::handle returns
\* an error (a Time or GetRecipients payload) App's loop goes on.
C20_Claim ==
    last.cmd.payload.type \in {"Time", "GetRecipients"} => app_status = "running"

\* The last command was a RegisterUser for a user that had an EventBus entry.
DoubleSubscription == LastIs("RegisterUser") /\ last.cmd.user \in DOMAIN last.bus

\* C21 (as claimed): a RegisterUser for a subscribed user is dropped: AppState
\* is unchanged, nothing is published for it, and App goes on.
C21_Claim ==
    DoubleSubscription =>
        /\ occupancy = last.pre
        /\ last.casts = <<>>
        /\ last.delivered = NoDelivery
        /\ app_status = "running"

\* The last command was a DropUser for a user that had no EventBus entry.
NotSubscribed == LastIs("DropUser") /\ last.cmd.user \notin DOMAIN last.bus

\* C22 (as claimed): after a DropUser for a user without EventBus entry App
\* goes on.
C22_Claim == NotSubscribed => app_status = "running"

\* The recipients of the broadcasts of the last command.
LastRecipients ==
    {d.to : d \in {Deliveries(last.casts)[i] : i \in 1..Len(Deliveries(last.casts))}}

\* C23 (as claimed): a recipient whose event channel is closed loses the event,
\* the other subscribed recipients get it, and App keeps running.
C23_Claim ==
    (\E v \in LastRecipients : v \in DOMAIN subscribers /\ ~rx_open[v]) =>
        /\ app_status = "running"
        /\ \A v \in LastRecipients :
              v \in DOMAIN subscribers /\ rx_open[v] => last.delivered[v] /= <<>>

\* The DropUser commands a session has sent.
Drops(u) == Count(sent[u], DropUser(u))

\* C24 (as claimed): a session that has left its main loop has sent exactly one
\* DropUser, and a session whose socket has closed, failed or ended leaves the
\* main loop and sends it.
C24_Claim ==
    /\ [](\A u \in Users :
             /\ pc[u] \in {"ending", "done"} => Drops(u) = 1
             /\ pc[u] = "main" => Drops(u) = 0)
    /\ \A u \in Users :
          (pc[u] = "main" /\ sock[u] \in {"closed", "ended"}) ~> (Drops(u) = 1)

\* The events of a sequence of deliveries that go to one user, in order.
EventsFor(v, dels) ==
    LET mine == SelectSeq(dels, LAMBDA d : d.to = v)
    IN  [i \in 1..Len(mine) |-> mine[i].event]

\* The events of a sequence of deliveries that the entries of bus put on one
\* channel, in order.
EventsOn(c, bus, dels) ==
    LET mine == SelectSeq(dels, LAMBDA d : d.to \in DOMAIN bus /\ bus[d.to] = c)
    IN  [i \in 1..Len(mine) |-> mine[i].event]

\* C25: the UserLeft of a DropUser is published while the dropped user still
\* has its EventBus entry, so every subscribed recipient, the dropped user
\* included, gets it (once for each time the recipient list names it); the
\* entry is gone when App turns to the next command.
C25_UnsubscribeDeferred ==
    LastIs("DropUser") /\ last.cmd.user \in DOMAIN last.bus
                       /\ app_status = "running" =>
        /\ \A v \in LastRecipients \cap DOMAIN last.bus :
              About(last.delivered[last.bus[v]], "UserLeft", last.cmd.user) /= <<>>
        /\ \A c \in Users :
              last.delivered[c] = EventsOn(c, last.bus, Deliveries(last.casts))
        /\ last.cmd.user \notin DOMAIN subscribers

\* A dropped user was among the recipients of its own UserLeft and has been
\* sent it; its entry has been removed since.
C25_Witness ==
    /\ LastIs("DropUser")
    /\ app_status = "running"
    /\ last.cmd.user \in DOMAIN last.bus
    /\ last.cmd.user \in LastRecipients
    /\ About(last.delivered[last.bus[last.cmd.user]], "UserLeft",
             last.cmd.user) /= <<>>
    /\ last.cmd.user \notin DOMAIN subscribers

\* The EventBus entries at the time the last command's broadcasts were published.
PublishBus ==
    DOMAIN last.bus \cup (IF LastIs("RegisterUser") THEN {last.cmd.user} ELSE {})

\* The step leaves the state and the broadcasts the handler answers with.
Follows(h) ==
    /\ occupancy' = h.state.occupancy
    /\ chat_logs' = h.state.chat_logs
    /\ notifications' = h.state.notifications
    /\ last'.casts = h.casts

\* C26: App takes the command at the head of the gateway channel, to which the
\* gateway appends in arrival order; the step that takes it leaves the state
\* the handler makes of the state all earlier commands left, and has put every
\* broadcast of the command, in the handler's order, into the channels of its
\* subscribed recipients before the next command is taken.
C26_Serialized ==
    /\ [][Len(gateway_source') > Len(gateway_source) =>
              /\ session_worker_source /= <<>>
              /\ gateway_source' = Append(gateway_source, Head(session_worker_source))
              /\ session_worker_source' = Tail(session_worker_source)]_vars
    /\ [][Len(gateway_source') < Len(gateway_source) =>
              /\ gateway_source' = Tail(gateway_source)
              /\ last'.cmd = Head(gateway_source)
              /\ \E ord \in Orders :
                    Follows(handle(AppState, Head(gateway_source), ord))
              /\ \A v \in Users :
                    event_source'[v] = event_source[v] \o last'.delivered[v]]_vars
    /\ [](\A v \in Users :
             last.delivered[v] =
                 IF v \in PublishBus
                 THEN EventsFor(v, Deliveries(last.casts))
                 ELSE <<>>)

\* App has handled a command with two broadcasts while a command of another
\* session waits in its channel.
C26_Witness ==
    /\ LastIs("MoveUser")
    /\ Len(last.casts) = 2
    /\ \A v \in LastOthers : Len(last.delivered[v]) = 1
    /\ Len(last.delivered[last.cmd.user]) = 1
    /\ gateway_source /= <<>>
    /\ Head(gateway_source).user /= last.cmd.user

\* The frames of the given kinds a session has read.
FramesOf(u, kinds) == SelectSeq(used[u].frames, LAMBDA f : f.kind \in kinds)

\* The commands of the given kinds a session has sent.
SentOf(u, kinds) == SelectSeq(sent[u], LAMBDA c : c.payload.type \in kinds)

\* C27 (as claimed): only the SendToRoom, Move and GetTime frames that carry
\* the id of the session's user as token produce a command or a reply.
C27_Claim ==
    \A u \in Users :
        /\ Len(SentOf(u, {"RecordMessage"})) =
               Len(SelectSeq(FramesOf(u, {"SendToRoom"}), LAMBDA f : f.token = "own"))
        /\ Len(SentOf(u, {"MoveUser"})) =
               Len(SelectSeq(FramesOf(u, {"Move"}), LAMBDA f : f.token = "own"))
        /\ replies[u] =
               Len(SelectSeq(FramesOf(u, {"GetTime"}), LAMBDA f : f.token = "own"))

\* The frame a session has read last is of the given kind.
LastFrame(u, kind) ==
    used[u].frames /= <<>> /\ used[u].frames[Len(used[u].frames)].kind = kind

\* C28 (as claimed): after a frame with a body other than SendToRoom, Move or
\* GetTime the session is still in its main loop and has sent no DropUser.
C28_Claim ==
    \A u \in Users :
        LastFrame(u, "OtherBody") /\ sock[u] = "open" =>
            pc[u] = "main" /\ Drops(u) = 0

\* The frames that make the main loop break.
Breaking == {"Undecryptable", "OtherBody"}

\* C29: a Binary frame that is no ClientMsg produces no command, and the
\* session that read it stays in its main loop as long as its socket is open
\* and no frame breaks the loop: every later GetTime is answered, every later
\* SendToRoom or Move becomes a command.
C29_UndeserializableSkipped ==
    \A u \in Users :
        FramesOf(u, {"NoClientMsg"}) /= <<>> =>
            /\ Len(SentOf(u, {"RecordMessage", "MoveUser"})) =
                   Len(FramesOf(u, {"SendToRoom", "Move"}))
            /\ replies[u] = Len(FramesOf(u, {"GetTime"}))
            /\ (sock[u] = "open" /\ FramesOf(u, Breaking) = <<>>) =>
                   pc[u] = "main" /\ Drops(u) = 0

\* A session has read a frame that is no ClientMsg and has answered the
\* GetTime that came after it.
C29_Witness ==
    \E u \in Users :
        /\ Len(used[u].frames) = 2
        /\ used[u].frames[1].kind = "NoClientMsg"
        /\ used[u].frames[2].kind = "GetTime"
        /\ replies[u] = 1
        /\ pc[u] = "main"

\* C30: a Binary frame that does not decrypt is the last frame the session
\* reads: the session has left the main loop and sent DropUser, and no command
\* has come from that frame.
C30_UndecryptableEnds ==
    \A u \in Users :
        FramesOf(u, {"Undecryptable"}) /= <<>> =>
            /\ LastFrame(u, "Undecryptable")
            /\ Len(FramesOf(u, {"Undecryptable"})) = 1
            /\ pc[u] \in {"ending", "done"}
            /\ Drops(u) = 1
            /\ sent[u][Len(sent[u])] = DropUser(u)
            /\ Len(SentOf(u, {"RecordMessage", "MoveUser"})) =
                   Len(FramesOf(u, {"SendToRoom", "Move"}))

\* A session has answered a GetTime, then read a frame that does not decrypt;
\* its DropUser has been handled while the client's socket is still open.
C30_Witness ==
    \E u \in Users :
        /\ Len(used[u].frames) = 2
        /\ used[u].frames[1].kind = "GetTime"
        /\ LastFrame(u, "Undecryptable")
        /\ sock[u] = "open"
        /\ pc[u] = "ending"
        /\ Handled(u, "DropUser")

\* C31 (as claimed): a frame that fails to decrypt is skipped: the session
\* that read it is still in its main loop and has sent no DropUser.
C31_Claim ==
    \A u \in Users :
        LastFrame(u, "Undecryptable") /\ sock[u] = "open" =>
            pc[u] = "main" /\ Drops(u) = 0

\* The notice of the last command's user leaving room r.
LeftNotice(r) == NotificationLog(<<Name(last.cmd.user), "left", r>>)

\* C32 (as claimed): a MoveUser or DropUser that removes its user from a room
\* leaves the "left" notice in that room's notification log and in the
\* notifications of its UserLeft.
C32_Claim ==
    (LastIs("MoveUser") \/ LastIs("DropUser")) =>
        \A r \in LastOld :
            /\ r \in DOMAIN notifications
            /\ Contains(notifications[r], LeftNotice(r))
            /\ last.casts /= <<>>
            /\ last.casts[1].event.type = "UserLeft"
            /\ Contains(last.casts[1].event.notifications, LeftNotice(r))

\* The room a RegisterUser or MoveUser puts its user into.
JoinRoom ==
    IF LastIs("MoveUser") THEN last.cmd.payload.target_room ELSE "Hub"

JoinNotice == NotificationLog(<<Name(last.cmd.user), "joined", JoinRoom>>)

\* The last element of a sequence that is not empty.
Newest(seq) == seq[Len(seq)]

\* C33: a RegisterUser or MoveUser leaves the "joined" notice as the newest
\* entry of the target room's notification log; its UserJoined is the last
\* broadcast of the command, goes to the joiner too, and carries the room as it
\* is after the insertion: the occupants with the joiner, the notifications
\* with the notice.
C33_JoinSnapshot ==
    (LastIs("RegisterUser") \/ LastIs("MoveUser")) =>
        /\ JoinRoom \in DOMAIN notifications
        /\ notifications[JoinRoom] /= <<>>
        /\ Newest(notifications[JoinRoom]) = JoinNotice
        /\ Newest(last.casts).event.type = "UserJoined"
        /\ Newest(last.casts).event.user = last.cmd.user
        /\ Newest(last.casts).event.room = JoinRoom
        /\ Newest(last.casts).event.notifications = notifications[JoinRoom]
        /\ Contains(Newest(last.casts).event.notifications, JoinNotice)
        /\ Newest(last.casts).event.occupant_names =
               [i \in 1..Len(occupancy[JoinRoom]) |-> Name(occupancy[JoinRoom][i])]
        /\ Contains(Newest(last.casts).event.occupant_names, Name(last.cmd.user))
        /\ Contains(Newest(last.casts).subscribers, last.cmd.user)
        /\ Newest(last.delivered[last.cmd.user]) = Newest(last.casts).event

\* A user has moved into the lobby, where another user was before it.
C33_Witness ==
    /\ LastIs("MoveUser")
    /\ JoinRoom = "lobby"
    /\ "lobby" \in DOMAIN last.pre
    /\ Len(occupancy["lobby"]) = 2
    /\ Len(notifications["lobby"]) >= 2

\* C34 (as claimed): the occupancy list of every room, and with it the
\* recipients and the occupant_names of the UserJoined or UserLeft built from
\* it last, lists the occupants in the order in which they were added to the
\* room.
C34_Claim ==
    /\ \A r \in DOMAIN occupancy : occupancy[r] = entered[r]
    /\ last.casts /= <<>> /\ Newest(last.casts).event.type /= "MsgReceived" =>
          /\ Newest(last.casts).subscribers =
                 entered[Newest(last.casts).event.room]
          /\ Newest(last.casts).event.occupant_names =
                 [i \in 1..Len(entered[Newest(last.casts).event.room]) |->
                     Name(entered[Newest(last.casts).event.room][i])]

\* The set of occupants of a room in an occupancy map.
Occupants(occ, r) == {occ[r][i] : i \in 1..Len(occ[r])}

\* A MoveUser whose target is the room its user is in.
SelfMove(c) ==
    c.payload.type = "MoveUser" /\ RoomsOf(c.user) = {c.payload.target_room}

\* C35: the step in which App handles a MoveUser into the user's own room
\* emits UserLeft then UserJoined for that room and changes neither the set of
\* occupants of any room nor any chat log, however often it is repeated.
C35_SameRoomMove ==
    [][(Len(gateway_source') < Len(gateway_source) /\ SelfMove(Head(gateway_source))) =>
          /\ DOMAIN occupancy' = DOMAIN occupancy
          /\ \A r \in DOMAIN occupancy :
                Occupants(occupancy', r) = Occupants(occupancy, r)
          /\ chat_logs' = chat_logs
          /\ Len(last'.casts) = 2
          /\ last'.casts[1].event.type = "UserLeft"
          /\ last'.casts[1].event.room = Head(gateway_source).payload.target_room
          /\ last'.casts[2].event.type = "UserJoined"
          /\ last'.casts[2].event.room = Head(gateway_source).payload.target_room]_vars

\* A user has moved into its own room twice, past another occupant; it is now
\* behind that occupant in the list.
C35_Witness ==
    /\ LastIs("MoveUser")
    /\ LastOld = {"Hub"}
    /\ JoinRoom = "Hub"
    /\ Len(SelectSeq(notifications["Hub"], LAMBDA n : n = JoinNotice)) = 3
    /\ Len(occupancy["Hub"]) = 2
    /\ Newest(occupancy["Hub"]) = last.cmd.user

\* C36: what a session has sent is, at every moment, a beginning of
\* RegisterUser, any number of RecordMessage and MoveUser, DropUser: the
\* RegisterUser is first and the only one, a DropUser is last and the only one,
\* and a session that has left its main loop has sent it.
C36_SessionCommands ==
    \A u \in Users :
        /\ pc[u] \in {"main", "ending", "done"} =>
              sent[u] /= <<>> /\ sent[u][1] = RegisterUser(u, u)
        /\ pc[u] \in {"idle", "connected", "spawned", "refused"} => sent[u] = <<>>
        /\ \A i \in 2..Len(sent[u]) :
              /\ sent[u][i].payload.type \in {"RecordMessage", "MoveUser", "DropUser"}
              /\ sent[u][i].payload.type = "DropUser" => i = Len(sent[u])
        /\ \A i \in 1..Len(sent[u]) : sent[u][i].user = u
        /\ pc[u] \in {"ending", "done"} <=> Drops(u) = 1
        /\ Drops(u) <= 1

\* A session has sent its RegisterUser, a message and its DropUser.
C36_Witness ==
    \E u \in Users :
        /\ Len(sent[u]) = 3
        /\ sent[u][2].payload.type = "RecordMessage"
        /\ sent[u][3] = DropUser(u)
        /\ pc[u] = "ending"

\* C37: with the commands coming from the sessions through the gateway, App
\* and the gateway keep running: no RegisterUser has met an entry, no DropUser
\* has missed one, no Time or GetRecipients is on its way to App or has reached
\* it, and no subscribed channel is closed.
C37_AppNeverFails ==
    /\ app_status = "running"
    /\ gateway_status = "running"
    /\ ~DoubleSubscription
    /\ ~NotSubscribed
    /\ last.cmd.payload.type \notin {"Time", "GetRecipients"}
    /\ \A i \in 1..Len(InFlight) :
          InFlight[i].payload.type \notin {"Time", "GetRecipients"}
    /\ \A v \in DOMAIN subscribers : rx_open[subscribers[v]]
    /\ \A u \in Users : pc[u] /= "panic"

\* App has handled the RegisterUser and the DropUser of a session that has also
\* answered a GetTime, while another user is subscribed.
C37_Witness ==
    \E u \in Users :
        /\ Handled(u, "RegisterUser")
        /\ Handled(u, "DropUser")
        /\ replies[u] >= 1
        /\ DOMAIN subscribers /= {}
        /\ app_status = "running"

\* C38: with the commands coming from the sessions, every occupant of every
\* room has an EventBus entry between commands.
C38_OccupantsSubscribed ==
    \A r \in DOMAIN occupancy : \A i \in 1..Len(occupancy[r]) :
        occupancy[r][i] \in DOMAIN subscribers

\* After one user's DropUser another is an occupant of the lobby, with its
\* entry.
C38_Witness ==
    /\ \E u \in Users : Handled(u, "DropUser") /\ u \notin DOMAIN subscribers
    /\ \E w \in DOMAIN subscribers : RoomsOf(w) = {"lobby"}

\* C39: once App has handled a user's DropUser, no step puts an event on that
\* user's event channel.
C39_NothingAfterDrop ==
    [][\A u \in Users :
          Handled(u, "DropUser") =>
              /\ recv'[u] = recv[u]
              /\ Len(event_source'[u]) <= Len(event_source[u])]_vars

\* After a user's DropUser App has handled the MoveUser of a user that shared
\* its room, and has published its broadcasts.
C39_Witness ==
    \E u \in Users :
        /\ Handled(u, "DropUser")
        /\ LastIs("MoveUser")
        /\ last.cmd.user /= u
        /\ Handled(last.cmd.user, "RegisterUser")
        /\ Len(last.casts) = 2
        /\ last.delivered[last.cmd.user] /= <<>>
        /\ recv[u] /= <<>>

\* C40: a subscribe that finds the user subscribed leaves the EventBus as it
\* was, the earlier sink still registered.
C40_Claim == DoubleSubscription => subscribers = last.bus

====
